---------------------------- MODULE Spec2Model ----------------------------
(***************************************************************************)
(* Model of causal_notes/viz/theme.py: the theme tables, the module-level  *)
(* profile marker, the rendering configuration written by set_theme, the   *)
(* accessors, apply_accessibility, savefig and the hex decoding of         *)
(* _relative_luminance.                                                    *)
(*                                                                         *)
(* Conventions.  A Python dict is a function on strings; {**a, **b} and    *)
(* dict.update are function override.  An optional value (None or a value) *)
(* is a sequence of length 0 or 1.  A Python string that the code indexes  *)
(* is a sequence of one-character strings.  Decimal literals of the        *)
(* option table are kept as their source text.                             *)
(***************************************************************************)
EXTENDS Integers, Sequences, FiniteSets, TLC

VARIABLES
    current_profile,    \* the module global _current_profile
    rcParams,           \* matplotlib's process-wide rcParams
    call,               \* the most recent call: its name and arguments
    raised,             \* the exception the most recent call ended with, or "none"
    ret,                \* the value the most recent call returned
    bars,               \* the shapes last handed to apply_accessibility
    dirs,               \* directories of the filesystem
    files,              \* regular files of the filesystem
    fig_savefig_calls   \* the fig.savefig calls made by the most recent savefig

vars == <<current_profile, rcParams, call, raised, ret, bars, dirs, files,
          fig_savefig_calls>>

None == <<>>
Some(v) == <<v>>

(***************************************************************************)
(* Bounds of the model.                                                    *)
(***************************************************************************)
MaxN == 6             \* n of get_colors / get_hatches ranges over -2..MaxN
MaxFontStep == 2      \* fontsize overrides reach _EXPORT_FONTSIZE + MaxFontStep
MaxBars == 6          \* shapes handed to apply_accessibility
MaxFormats == 2       \* entries of savefig's formats
MaxHexLen == 8        \* characters of a colour string

(***************************************************************************)
(* The static tables.                                                      *)
(***************************************************************************)
PALETTE ==
    ("treatment" :> "#a78bfa") @@ ("control" :> "#22d3ee") @@
    ("confounder" :> "#fbbf24") @@ ("outcome" :> "#34d399") @@
    ("neutral" :> "#94a3b8") @@
    ("treatment_l" :> "#6d28d9") @@ ("control_l" :> "#0891b2") @@
    ("confounder_l" :> "#b45309") @@ ("outcome_l" :> "#047857") @@
    ("neutral_l" :> "#475569")

HATCH ==
    ("treatment" :> "///") @@ ("control" :> "...") @@ ("confounder" :> "xxx") @@
    ("outcome" :> "---") @@ ("neutral" :> "|||")

SERIES_ORDER == <<"treatment", "control", "confounder", "outcome", "neutral">>

_DARK_BG == "#0f172a"
_DARK_BG2 == "#1e293b"
_DARK_FG == "#e2e8f0"
_DARK_GRID == "#334155"
_LIGHT_BG == "#ffffff"
_LIGHT_BG2 == "#f8fafc"
_LIGHT_FG == "#1e293b"
_LIGHT_GRID == "#cbd5e1"
_PRINT_BG == "#ffffff"
_PRINT_FG == "#000000"
_PRINT_GRID == "#9ca3af"

_EXPORT_FONTSIZE == 11

\* mpl.cycler(color=[...], hatch=[...])
Cycler(colors, hatches) == [color |-> colors, hatch |-> hatches]

HatchCycle ==
    <<HATCH["treatment"], HATCH["control"], HATCH["confounder"],
      HATCH["outcome"], HATCH["neutral"]>>

ProfileOptions(bg, bg2, edge, fg, grid, cycle) ==
    ("figure.facecolor" :> bg) @@ ("axes.facecolor" :> bg2) @@
    ("axes.edgecolor" :> edge) @@ ("axes.labelcolor" :> fg) @@
    ("axes.titlecolor" :> fg) @@ ("text.color" :> fg) @@
    ("xtick.color" :> fg) @@ ("ytick.color" :> fg) @@
    ("grid.color" :> grid) @@ ("legend.facecolor" :> bg2) @@
    ("legend.edgecolor" :> edge) @@ ("legend.labelcolor" :> fg) @@
    ("savefig.facecolor" :> bg) @@ ("axes.prop_cycle" :> cycle)

_PROFILES ==
    ("dark" :>
        ProfileOptions(_DARK_BG, _DARK_BG2, _DARK_GRID, _DARK_FG, _DARK_GRID,
            Cycler(<<PALETTE["treatment"], PALETTE["control"],
                     PALETTE["confounder"], PALETTE["outcome"],
                     PALETTE["neutral"]>>, HatchCycle))) @@
    ("light" :>
        ProfileOptions(_LIGHT_BG, _LIGHT_BG2, _LIGHT_GRID, _LIGHT_FG, _LIGHT_GRID,
            Cycler(<<PALETTE["treatment_l"], PALETTE["control_l"],
                     PALETTE["confounder_l"], PALETTE["outcome_l"],
                     PALETTE["neutral_l"]>>, HatchCycle))) @@
    ("print" :>
        ProfileOptions(_PRINT_BG, _PRINT_BG, _PRINT_FG, _PRINT_FG, _PRINT_GRID,
            Cycler(<<"#555555", "#888888", "#222222", "#aaaaaa", "#333333">>,
                   HatchCycle)))

_COMMON ==
    ("figure.figsize" :> <<10, 6>>) @@ ("figure.dpi" :> 120) @@
    ("savefig.dpi" :> 300) @@
    ("font.size" :> _EXPORT_FONTSIZE) @@
    ("axes.labelsize" :> _EXPORT_FONTSIZE + 1) @@
    ("axes.titlesize" :> _EXPORT_FONTSIZE + 3) @@
    ("axes.titleweight" :> "bold") @@
    ("xtick.labelsize" :> _EXPORT_FONTSIZE) @@
    ("ytick.labelsize" :> _EXPORT_FONTSIZE) @@
    ("legend.fontsize" :> _EXPORT_FONTSIZE) @@
    ("legend.title_fontsize" :> _EXPORT_FONTSIZE + 1) @@
    ("text.usetex" :> FALSE) @@ ("mathtext.fontset" :> "cm") @@
    ("axes.grid" :> TRUE) @@ ("grid.linestyle" :> "--") @@
    ("grid.linewidth" :> "0.5") @@ ("grid.alpha" :> "0.4") @@
    ("axes.spines.top" :> FALSE) @@ ("axes.spines.right" :> FALSE) @@
    ("lines.linewidth" :> "2.0") @@ ("lines.markersize" :> 7) @@
    ("patch.linewidth" :> "1.2") @@ ("hatch.linewidth" :> "1.2") @@
    ("figure.constrained_layout.use" :> TRUE) @@
    ("savefig.format" :> "svg") @@ ("savefig.bbox" :> "tight") @@
    ("savefig.pad_inches" :> "0.1")

(***************************************************************************)
(* Dict helpers.                                                           *)
(***************************************************************************)
\* {**a, **b}, and a.update(b): b's entries win
Merge(a, b) == b @@ a

\* d.get(k, default)
DictGet(d, k, default) == IF k \in DOMAIN d THEN d[k] ELSE default

\* seq[:n] of Python, for an integer n (a negative n counts from the end)
SlicePrefix(seq, n) ==
    LET stop == IF n < 0 THEN (IF Len(seq) + n < 0 THEN 0 ELSE Len(seq) + n)
                ELSE (IF n > Len(seq) THEN Len(seq) ELSE n)
    IN  SubSeq(seq, 1, stop)

(***************************************************************************)
(* The state after import: the profile marker is "dark", nothing has been  *)
(* written to rcParams (every option still holds the plotting library's    *)
(* own default), no call has been made.                                    *)
(***************************************************************************)
MplDefault == "<matplotlib default>"

RcKeys == DOMAIN _COMMON \cup DOMAIN _PROFILES["dark"] \cup {"font.family"}

Init ==
    /\ current_profile = "dark"
    /\ rcParams = [k \in RcKeys |-> MplDefault]
    /\ call = [op |-> "import"]
    /\ raised = "none"
    /\ ret = None
    /\ bars = <<>>
    /\ dirs = {<<>>}
    /\ files = {}
    /\ fig_savefig_calls = <<>>

(***************************************************************************)
(* set_theme                                                               *)
(***************************************************************************)
\* if usetex: rc["text.usetex"] = True; rc["font.family"] = "serif"
UsetexOverrides(usetex) ==
    IF usetex THEN ("text.usetex" :> TRUE) @@ ("font.family" :> "serif")
    ELSE <<>>

\* a variant that tests the truth value of fontsize, so that 0 is ignored
FontsizeOverridesTruthy(fontsize) ==
    IF fontsize # None /\ fontsize[1] # 0
    THEN LET f == fontsize[1] IN
         ("font.size" :> f) @@ ("axes.labelsize" :> f + 1) @@
         ("axes.titlesize" :> f + 3) @@ ("xtick.labelsize" :> f) @@
         ("ytick.labelsize" :> f) @@ ("legend.fontsize" :> f)
    ELSE <<>>

\* if fontsize is not None: the six font-size options
FontsizeOverrides(fontsize) ==
    IF fontsize # None
    THEN LET f == fontsize[1] IN
         ("font.size" :> f) @@ ("axes.labelsize" :> f + 1) @@
         ("axes.titlesize" :> f + 3) @@ ("xtick.labelsize" :> f) @@
         ("ytick.labelsize" :> f) @@ ("legend.fontsize" :> f)
    ELSE <<>>

\* the local rc of set_theme, for a style of _PROFILES
ThemeRc(style, usetex, fontsize) ==
    Merge(Merge(Merge(_COMMON, _PROFILES[style]), UsetexOverrides(usetex)),
          FontsizeOverrides(fontsize))

\* the profile marker after set_theme(style, ...): assigned before the lookup
RecordedProfile(old, style) == style

\* mpl.rcParams.update(rc)
RcUpdate(old, rc) == Merge(old, rc)

set_theme(style, usetex, fontsize) ==
    /\ call' = [op |-> "set_theme", style |-> style, usetex |-> usetex,
                fontsize |-> fontsize]
    /\ current_profile' = RecordedProfile(current_profile, style)
    /\ IF style \in DOMAIN _PROFILES
       THEN /\ rcParams' = RcUpdate(rcParams, ThemeRc(style, usetex, fontsize))
            /\ raised' = "none"
       ELSE /\ rcParams' = rcParams
            /\ raised' = "KeyError"
    /\ ret' = None
    /\ UNCHANGED <<bars, dirs, files, fig_savefig_calls>>

(***************************************************************************)
(* get_colors, get_hatches                                                 *)
(***************************************************************************)
\* a variant that takes every profile but "dark" for a light one
SuffixUnlessDark(profile) == IF profile # "dark" THEN "_l" ELSE ""

\* suffix = "_l" if _current_profile == "light" else ""
Suffix(profile) == IF profile = "light" THEN "_l" ELSE ""

\* n is falsy when it is None or 0
Truthy(n) == n # None /\ n[1] # 0

\* keys = SERIES_ORDER[:n] if n else SERIES_ORDER
Keys(n) == IF Truthy(n) THEN SlicePrefix(SERIES_ORDER, n[1]) ELSE SERIES_ORDER

GetColors(profile, n) ==
    LET keys == Keys(n) IN
    [i \in 1..Len(keys) |->
        DictGet(PALETTE, keys[i] \o Suffix(profile),
                DictGet(PALETTE, keys[i], "#888888"))]

GetHatches(n) ==
    LET keys == Keys(n) IN [i \in 1..Len(keys) |-> HATCH[keys[i]]]

get_colors(n) ==
    /\ call' = [op |-> "get_colors", n |-> n]
    /\ ret' = GetColors(current_profile, n)
    /\ raised' = "none"
    /\ UNCHANGED <<current_profile, rcParams, bars, dirs, files,
                   fig_savefig_calls>>

get_hatches(n) ==
    /\ call' = [op |-> "get_hatches", n |-> n]
    /\ ret' = GetHatches(n)
    /\ raised' = "none"
    /\ UNCHANGED <<current_profile, rcParams, bars, dirs, files,
                   fig_savefig_calls>>

(***************************************************************************)
(* Inputs of the theme specification.                                      *)
(***************************************************************************)
Styles == {"dark", "light", "print", "bogus"}

FontSizes ==
    {None} \cup {Some(f) : f \in (-1)..1 \cup
                     (_EXPORT_FONTSIZE .. _EXPORT_FONTSIZE + MaxFontStep)}

Counts == {None} \cup {Some(n) : n \in (-2)..MaxN}

SetTheme == \E style \in Styles, usetex \in BOOLEAN, fontsize \in FontSizes :
                set_theme(style, usetex, fontsize)

GetColorsCall == \E n \in Counts : get_colors(n)

GetHatchesCall == \E n \in Counts : get_hatches(n)

Next == SetTheme \/ GetColorsCall \/ GetHatchesCall

Spec == Init /\ [][Next]_vars

(***************************************************************************)
(* apply_accessibility.  A shape is a record of the hatch it carries and   *)
(* of what its get_edgecolor() returns: None, or an RGBA tuple whose       *)
(* components are written in 1/255 units (255 stands for 1.0).             *)
(***************************************************************************)
\* matplotlib's colour conversion, on the two colours set_edgecolor is given
ToRgba(hex) ==
    CASE hex = _DARK_FG  -> <<226, 232, 240, 255>>
      [] hex = _PRINT_FG -> <<0, 0, 0, 255>>

\* np.allclose(x, 0): every component within 1e-8 of 0, alpha included
AllCloseZero(x) == \A k \in 1..Len(x) : x[k] = 0

\* a variant that lets hatches[i] run off the table's end onto its last entry
HatchAtClamped(hatches, i) ==
    hatches[(IF i < Len(hatches) THEN i ELSE Len(hatches) - 1) + 1]

\* hatches[i % len(hatches)], i counted from 0
HatchAt(hatches, i) == hatches[(i % Len(hatches)) + 1]

\* the test of line 322
EdgeUnsetOrZero(edge) == edge = None \/ AllCloseZero(edge)

\* the edge colour the loop body leaves on a shape
EdgeAfter(profile, edge) ==
    IF EdgeUnsetOrZero(edge)
    THEN (IF profile = "dark" THEN ToRgba(_DARK_FG) ELSE ToRgba(_PRINT_FG))
    ELSE edge

apply_accessibility ==
    LET hatches == GetHatches(None) IN
    /\ call' = [op |-> "apply_accessibility", n |-> Len(bars)]
    /\ bars' = [i \in 1..Len(bars) |->
                   [hatch |-> Some(HatchAt(hatches, i - 1)),
                    edgecolor |-> EdgeAfter(current_profile, bars[i].edgecolor)]]
    /\ raised' = "none"
    /\ ret' = None
    /\ UNCHANGED <<current_profile, rcParams, dirs, files, fig_savefig_calls>>

\* the edge colours a shape may carry when it is handed over: unset,
\* transparent black (the library's "none"), opaque black, opaque red
EdgeColors == {None, <<0, 0, 0, 0>>, <<0, 0, 0, 255>>, <<255, 0, 0, 255>>}

Shapes == [hatch : {None}, edgecolor : EdgeColors]

ShapeLists == UNION {[1..k -> Shapes] : k \in 0..MaxBars}

InitAccess ==
    /\ current_profile = "dark"
    /\ rcParams = [k \in RcKeys |-> MplDefault]
    /\ call = [op |-> "import"]
    /\ raised = "none"
    /\ ret = None
    /\ bars \in ShapeLists
    /\ dirs = {<<>>}
    /\ files = {}
    /\ fig_savefig_calls = <<>>

SetThemeDefaults == \E style \in Styles : set_theme(style, FALSE, None)

NextAccess == SetThemeDefaults \/ apply_accessibility

SpecAccess == InitAccess /\ [][NextAccess]_vars

(***************************************************************************)
(* savefig.  A path is the sequence of its components; "." is the empty    *)
(* sequence.  The filesystem accepts every write (its failures belong to   *)
(* the environment and propagate unhandled).                               *)
(***************************************************************************)
\* outdir / f"{name}.{fmt}"
FigPath(outdir, name, fmt) == Append(outdir, name \o "." \o fmt)

\* a variant that asks for 300 dpi whatever the format
DpiAlways(fmt) == Some(300)

\* dpi = 300 if fmt == "png" else None
Dpi(fmt) == IF fmt = "png" THEN Some(300) ELSE None

Prefixes(path) == {SubSeq(path, 1, k) : k \in 0..Len(path)}

\* fig.savefig(path, format=fmt, dpi=dpi, **kwargs) cannot be called when
\* kwargs repeats one of the keywords the call already passes
KeywordClash(kwargs) == kwargs \cap {"format", "dpi"} # {}

\* the number of loop iterations that complete: the first iteration raises
\* TypeError on a keyword clash
Completed(formats, kwargs) == IF KeywordClash(kwargs) THEN 0 ELSE Len(formats)

\* a variant of the loop's bookkeeping that appends each path at the front
SavedReversed(outdir, name, formats, done) ==
    [i \in 1..done |-> FigPath(outdir, name, formats[done + 1 - i])]

\* the list saved after done iterations
Saved(outdir, name, formats, done) ==
    [i \in 1..done |-> FigPath(outdir, name, formats[i])]

savefig(name, outdir, formats, kwargs) ==
    LET done == Completed(formats, kwargs)
        saved == Saved(outdir, name, formats, done)
    IN  /\ call' = [op |-> "savefig", name |-> name, outdir |-> outdir,
                    formats |-> formats, kwargs |-> kwargs]
        /\ dirs' = dirs \cup Prefixes(outdir)
        /\ files' = files \cup {saved[i] : i \in 1..done}
        /\ fig_savefig_calls' =
               [i \in 1..done |->
                   [path |-> FigPath(outdir, name, formats[i]),
                    format |-> formats[i],
                    dpi |-> Dpi(formats[i])]]
        /\ IF done = Len(formats)
           THEN raised' = "none" /\ ret' = saved
           ELSE raised' = "TypeError" /\ ret' = None
        /\ UNCHANGED <<current_profile, rcParams, bars>>

Names == {"plot"}

OutDirs == {<<>>, <<"out", "figs">>}

Formats == {"svg", "png", "jpg"}

FormatLists == UNION {[1..k -> Formats] : k \in 0..MaxFormats}

Kwargs == {{}, {"dpi"}}

SaveFig == \E name \in Names, outdir \in OutDirs, formats \in FormatLists,
              kwargs \in Kwargs : savefig(name, outdir, formats, kwargs)

NextSave == SaveFig

SpecSave == Init /\ [][NextSave]_vars

(***************************************************************************)
(* _relative_luminance and contrast_ratio.  A colour string is a sequence  *)
(* of one-character strings.  The model follows the decoding of the three  *)
(* channels, which is where the function can raise; the channel bytes      *)
(* stand for the luminance computed from them by float arithmetic.         *)
(***************************************************************************)
HexValue ==
    ("0" :> 0) @@ ("1" :> 1) @@ ("2" :> 2) @@ ("3" :> 3) @@ ("4" :> 4) @@
    ("5" :> 5) @@ ("6" :> 6) @@ ("7" :> 7) @@ ("8" :> 8) @@ ("9" :> 9) @@
    ("a" :> 10) @@ ("b" :> 11) @@ ("c" :> 12) @@ ("d" :> 13) @@ ("e" :> 14) @@
    ("f" :> 15) @@ ("A" :> 10) @@ ("B" :> 11) @@ ("C" :> 12) @@ ("D" :> 13) @@
    ("E" :> 14) @@ ("F" :> 15)

RECURSIVE LStrip(_, _)
\* s.lstrip(c): every leading c is dropped
LStrip(s, c) == IF s # <<>> /\ Head(s) = c THEN LStrip(Tail(s), c) ELSE s

RECURSIVE RStrip(_, _)
RStrip(s, c) ==
    IF s # <<>> /\ s[Len(s)] = c THEN RStrip(SubSeq(s, 1, Len(s) - 1), c) ELSE s

\* s[i : i + 2], i counted from 0: shorter than 2, or empty, past the end
Slice2(s, i) ==
    SubSeq(s, i + 1, IF i + 2 > Len(s) THEN Len(s) ELSE i + 2)

RECURSIVE DigitsValue(_, _)
DigitsValue(s, acc) ==
    IF s = <<>> THEN acc ELSE DigitsValue(Tail(s), 16 * acc + HexValue[Head(s)])

\* int(t, 16) for a string t of at most two characters: surrounding blanks
\* are ignored, one sign is allowed, and at least one hex digit must follow.
\* None stands for ValueError.
ParseInt16(t) ==
    LET u == RStrip(LStrip(t, " "), " ")
        signed == u # <<>> /\ Head(u) \in {"+", "-"}
        digits == IF signed THEN Tail(u) ELSE u
    IN  IF digits = <<>> \/ \E k \in 1..Len(digits) : digits[k] \notin DOMAIN HexValue
        THEN None
        ELSE Some(IF signed /\ Head(u) = "-" THEN 0 - DigitsValue(digits, 0)
                  ELSE DigitsValue(digits, 0))

\* the three channel values of lines 382-383, or None when an int() raises
Channels(hex_color) ==
    LET h == LStrip(hex_color, "#")
        r == ParseInt16(Slice2(h, 0))
        g == ParseInt16(Slice2(h, 2))
        b == ParseInt16(Slice2(h, 4))
    IN  IF r = None \/ g = None \/ b = None THEN None
        ELSE Some(<<r[1], g[1], b[1]>>)

_relative_luminance ==
    /\ call.op = "pending"
    /\ call' = [op |-> "_relative_luminance", hex_color |-> call.hex_color]
    /\ LET c == Channels(call.hex_color) IN
       /\ raised' = IF c = None THEN "ValueError" ELSE "none"
       /\ ret' = c
    /\ UNCHANGED <<current_profile, rcParams, bars, dirs, files,
                   fig_savefig_calls>>

\* contrast_ratio(color1, color2): l1 first, then l2
contrast_ratio(color2) ==
    /\ call.op = "pending"
    /\ call' = [op |-> "contrast_ratio", hex_color |-> call.hex_color,
                color2 |-> color2]
    /\ LET c1 == Channels(call.hex_color)
           c2 == Channels(color2)
       IN  IF c1 = None \/ c2 = None
           THEN raised' = "ValueError" /\ ret' = None
           ELSE raised' = "none" /\ ret' = Some(<<c1[1], c2[1]>>)
    /\ UNCHANGED <<current_profile, rcParams, bars, dirs, files,
                   fig_savefig_calls>>

HexAlphabet == {"#", "a", "g", "-"}

HexStrings == UNION {[1..k -> HexAlphabet] : k \in 0..MaxHexLen}

\* the backgrounds audit_palette compares against: _DARK_BG and _LIGHT_BG
Backgrounds ==
    {<<"#", "0", "f", "1", "7", "2", "a">>, <<"#", "f", "f", "f", "f", "f", "f">>}

InitLum ==
    /\ current_profile = "dark"
    /\ rcParams = [k \in RcKeys |-> MplDefault]
    /\ call \in [op : {"pending"}, hex_color : HexStrings]
    /\ raised = "none"
    /\ ret = None
    /\ bars = <<>>
    /\ dirs = {<<>>}
    /\ files = {}
    /\ fig_savefig_calls = <<>>

ContrastRatio == \E color2 \in Backgrounds : contrast_ratio(color2)

NextLum == _relative_luminance \/ ContrastRatio

SpecLum == InitLum /\ [][NextLum]_vars

(***************************************************************************)
(* Properties of the theme specification.                                  *)
(***************************************************************************)
ValidStyles == {"dark", "light", "print"}

IsCall(c, op) == c.op = op

\* the palette entries of the first k roles, for the variant a profile selects
PaletteVariant(suffix, k) ==
    [i \in 1..k |-> PALETTE[SERIES_ORDER[i] \o suffix]]

HatchPrefix(k) == [i \in 1..k |-> HATCH[SERIES_ORDER[i]]]

\* the palette variant a recorded profile stands for
VariantOf(profile) == IF profile = "light" THEN "_l" ELSE ""

\* C1: a set_theme call whose profile name is outside {dark, light, print}
\* ends with an error and leaves the recorded current profile as it was
\* before the call.
C1_InvalidStyleKeepsProfile ==
    [][(IsCall(call', "set_theme") /\ call'.style \notin ValidStyles)
          => (raised' # "none" /\ current_profile' = current_profile)]_vars

\* C2: for n in 0..5, get_colors(n) and get_hatches(n) return exactly n
\* entries, those of the first n roles of SERIES_ORDER (pairwise distinct for
\* get_hatches); n = 0 gives the empty sequence and n = None gives all 5.
C2_FirstNEntries ==
    /\ IsCall(call, "get_colors") =>
          /\ (call.n # None /\ call.n[1] \in 0..5) =>
                /\ Len(ret) = call.n[1]
                /\ ret = PaletteVariant(VariantOf(current_profile), call.n[1])
          /\ call.n = None => ret = PaletteVariant(VariantOf(current_profile), 5)
    /\ IsCall(call, "get_hatches") =>
          /\ (call.n # None /\ call.n[1] \in 0..5) =>
                /\ Len(ret) = call.n[1]
                /\ ret = HatchPrefix(call.n[1])
                /\ \A i, j \in 1..Len(ret) : i # j => ret[i] # ret[j]
          /\ call.n = None => ret = HatchPrefix(5)

\* C3: every successful set_theme call with a valid profile name records that
\* name as the current profile, the accessors leave the recorded profile
\* alone, and get_colors() returns the "_l" palette entries in role order if
\* and only if the recorded profile is "light", the unsuffixed entries
\* otherwise.
C3_ProfileFollowsLastCall ==
    [][/\ (IsCall(call', "set_theme") /\ call'.style \in ValidStyles)
            => (raised' = "none" /\ current_profile' = call'.style)
       /\ (IsCall(call', "get_colors") \/ IsCall(call', "get_hatches"))
            => current_profile' = current_profile
       /\ (IsCall(call', "get_colors") /\ call'.n = None)
            => /\ (ret' = PaletteVariant("_l", 5)) <=> (current_profile = "light")
               /\ current_profile # "light" => ret' = PaletteVariant("", 5)
      ]_vars

C3_Witness ==
    /\ IsCall(call, "get_colors") /\ call.n = None
    /\ current_profile = "light"
    /\ ret = <<"#6d28d9", "#0891b2", "#b45309", "#047857", "#475569">>

\* C4: after a successful set_theme call the value of every option set_theme
\* can write is determined by the arguments of that call alone: it is the
\* configuration the same call leaves when it is the first call made.
C4_ConfigDeterminedByLastCall ==
    (IsCall(call, "set_theme") /\ raised = "none") =>
        rcParams = RcUpdate([k \in RcKeys |-> MplDefault],
                            ThemeRc(call.style, call.usetex, call.fontsize))

\* C9: after set_theme with a fontsize override f, font.size = f,
\* axes.labelsize = f + 1, axes.titlesize = f + 3 and the tick and legend
\* sizes are f; with fontsize None they are 11, 12, 14, 11, 11, 11.
C9_FontSizes ==
    (IsCall(call, "set_theme") /\ raised = "none") =>
        LET f == IF call.fontsize # None THEN call.fontsize[1] ELSE 11 IN
        /\ rcParams["font.size"] = f
        /\ rcParams["axes.labelsize"] = f + 1
        /\ rcParams["axes.titlesize"] = f + 3
        /\ rcParams["xtick.labelsize"] = f
        /\ rcParams["ytick.labelsize"] = f
        /\ rcParams["legend.fontsize"] = f

C9_Witness ==
    /\ IsCall(call, "set_theme") /\ raised = "none"
    /\ call.fontsize = Some(0)
    /\ rcParams["font.size"] = 0
    /\ rcParams["axes.titlesize"] = 3

(***************************************************************************)
(* Properties of savefig (SpecSave).                                       *)
(***************************************************************************)
\* C5: a savefig call that returns has made one fig.savefig call per entry
\* of formats, to outdir/name.<format>, in the order of formats; it returns
\* those paths, as many as formats has entries and in the same order, and
\* every one of them is a file afterwards.  With formats = (svg, png) the
\* result is [outdir/plot.svg, outdir/plot.png].
C5_OnePathPerFormat ==
    (IsCall(call, "savefig") /\ raised = "none") =>
        /\ Len(ret) = Len(call.formats)
        /\ Len(fig_savefig_calls) = Len(call.formats)
        /\ \A i \in 1..Len(call.formats) :
              /\ ret[i] = Append(call.outdir,
                                 call.name \o "." \o call.formats[i])
              /\ fig_savefig_calls[i].path = ret[i]
              /\ fig_savefig_calls[i].format = call.formats[i]
              /\ ret[i] \in files
        /\ call.outdir \in dirs
        /\ (call.formats = <<"svg", "png">> /\ call.outdir = <<"out", "figs">>)
              => ret = << <<"out", "figs", "plot.svg">>,
                          <<"out", "figs", "plot.png">> >>

C5_Witness ==
    /\ IsCall(call, "savefig") /\ raised = "none"
    /\ call.formats = <<"svg", "png">>
    /\ call.outdir = <<"out", "figs">>
    /\ ret = << <<"out", "figs", "plot.svg">>, <<"out", "figs", "plot.png">> >>
    /\ {<<"out", "figs", "plot.svg">>, <<"out", "figs", "plot.png">>} \subseteq files

RasterFormats == {"png", "jpg", "jpeg", "tif", "tiff", "webp"}

\* C8 as claimed: every fig.savefig call made by savefig passes dpi = 300
\* when its format is a raster format and no dpi override when it is a
\* vector format.
C8_RasterGets300 ==
    IsCall(call, "savefig") =>
        \A i \in 1..Len(fig_savefig_calls) :
            fig_savefig_calls[i].dpi =
                IF fig_savefig_calls[i].format \in RasterFormats
                THEN Some(300) ELSE None

\* C8 as amended: every fig.savefig call made by savefig passes dpi = 300
\* when its format is exactly "png" and no dpi override for every other
\* format, raster (jpg) or vector (svg).
C8_OnlyPngGets300 ==
    IsCall(call, "savefig") =>
        \A i \in 1..Len(fig_savefig_calls) :
            /\ fig_savefig_calls[i].format = "png"
                  => fig_savefig_calls[i].dpi = Some(300)
            /\ fig_savefig_calls[i].format # "png"
                  => fig_savefig_calls[i].dpi = None

C8_Witness ==
    /\ IsCall(call, "savefig") /\ raised = "none"
    /\ call.formats = <<"jpg", "png">>
    /\ fig_savefig_calls[1].dpi = None
    /\ fig_savefig_calls[2].dpi = Some(300)

(***************************************************************************)
(* Properties of apply_accessibility (SpecAccess).                         *)
(***************************************************************************)
\* C6: after apply_accessibility the shape at index i (counted from 0)
\* carries the hatch of role SERIES_ORDER[i mod 5]; every shape carries a
\* hatch, and shapes i and i + 5 carry the same one.
C6_CyclicHatches ==
    IsCall(call, "apply_accessibility") =>
        \A p \in 1..Len(bars) :
            /\ bars[p].hatch # None
            /\ bars[p].hatch = Some(HATCH[SERIES_ORDER[((p - 1) % 5) + 1]])
            /\ p + 5 <= Len(bars) => bars[p + 5].hatch = bars[p].hatch

C6_Witness ==
    /\ IsCall(call, "apply_accessibility")
    /\ Len(bars) >= 6
    /\ bars[1].hatch = Some("///")
    /\ bars[6].hatch = Some("///")
    /\ bars[5].hatch = Some("|||")

IsBlack(edge) == edge # None /\ edge[1] = 0 /\ edge[2] = 0 /\ edge[3] = 0

\* C10: apply_accessibility sets a shape's edge colour exactly when the
\* colour is unset or black (RGB 0,0,0 at any alpha, opaque black included):
\* to the dark foreground if the current profile is "dark", to the print
\* foreground otherwise; any other edge colour is kept.
C10_BlackEdgesRecoloured ==
    [][IsCall(call', "apply_accessibility") =>
          /\ Len(bars') = Len(bars)
          /\ \A p \in 1..Len(bars) :
                IF bars[p].edgecolor = None \/ IsBlack(bars[p].edgecolor)
                THEN bars'[p].edgecolor =
                        IF current_profile = "dark"
                        THEN <<226, 232, 240, 255>> ELSE <<0, 0, 0, 255>>
                ELSE bars'[p].edgecolor = bars[p].edgecolor
      ]_vars

(***************************************************************************)
(* Properties of the colour decoding (SpecLum).                            *)
(***************************************************************************)
IsHexDigits(s) == \A k \in 1..Len(s) : s[k] \in DOMAIN HexValue

\* exactly six hex digits, with at most one "#" in front
WellFormedColor(s) ==
    \/ Len(s) = 6 /\ IsHexDigits(s)
    \/ Len(s) = 7 /\ s[1] = "#" /\ IsHexDigits(Tail(s))

\* C7: _relative_luminance, and contrast_ratio through it, returns a value
\* only for a string of exactly 6 hex digits with at most one leading "#";
\* every other input ends in an error.
C7_OnlySixHexDigits ==
    (IsCall(call, "_relative_luminance") \/ IsCall(call, "contrast_ratio")) =>
        (raised = "none" => WellFormedColor(call.hex_color))

=============================================================================
